---- MODULE Spec2Model ----
(***************************************************************************)
(* The chat data-access hook useChatsDb (src/hooks/db/useChatsDb.ts): the  *)
(* cached chat list, the loading flag, the four tables of the backing      *)
(* store, the load started by the identity effect and the three callbacks  *)
(* createChat, sendMessage and markMessageAsRead.  Every asynchronous      *)
(* routine is cut at its awaits: one step is one store statement together  *)
(* with the synchronous code that follows it up to the next await.         *)
(***************************************************************************)
EXTENDS Integers, Sequences, FiniteSets, TLC

VARIABLES
    currentUserId,  \* the hook's argument: a user id or Null
    mounted,        \* FALSE until the identity effect has run for the first time
    userChats,      \* useState<Chat[]>: the cached chat list
    loading,        \* useState(true): the loading flag
    now,            \* Date.now()
    db,             \* the store: chats, chatParticipants, messages, messageReadReceipts
    calls,          \* the callback invocations in flight or returned, per slot
    loads,          \* the loadChats runs in flight or ended, per slot
    nOps,           \* number of operations started so far
    isLoggedIn,     \* useProtectedRoute's first argument
    authLoading,    \* useProtectedRoute's second argument (loading)
    segments,       \* useSegments(): the segments of the current route
    effectDue,      \* TRUE when the guard's effect is to run (first render, or a dependency changed)
    replaced,       \* TRUE once router.replace has been called since isLoggedIn last changed
    nRouteOps       \* number of changes of the guard's inputs so far

hookVars == <<currentUserId, mounted, userChats, loading, now, db, calls, loads, nOps>>

routeVars == <<isLoggedIn, authLoading, segments, effectDue, replaced, nRouteOps>>

vars == <<hookVars, routeVars>>

----------------------------------------------------------------------------
(* Bounds *)

MaxClock == 2       \* Date.now() ranges over 1..MaxClock
MaxOps == 2         \* callback invocations and identity changes per behaviour
NumCalls == 2       \* callback invocations that can be in flight together
NumLoads == 2       \* loadChats runs that can be in flight together
MaxRouteOps == 4    \* changes of the route guard's inputs per behaviour

----------------------------------------------------------------------------
(* Values *)

Null == "null"
Users == {"u1", "u2"}

\* string | undefined and Message | undefined: the empty or the one-element sequence
None == <<>>
Some(v) == <<v>>

\* Texts are sequences of characters; " " is the only whitespace used.
Texts == {<<>>, <<" ">>, <<"h">>}

\* imageData?: { uri, previewUri }
Images == {None, Some([uri |-> "file", previewUri |-> "prev"])}

ParticipantLists == {<<"u2", "u1">>, <<"u2">>, <<"u1", "u1">>}

\* `chat${Date.now()}`, `cp-${chatId}-${userId}`, `msg${Date.now()}`,
\* `receipt-${Date.now()}-${userId}`: a prefix and the interpolated values
ChatIdOf(t) == <<"chat", t>>
ParticipantRowIdOf(chatId, userId) == <<"cp", chatId, userId>>
MessageIdOf(t) == <<"msg", t>>
ReceiptIdOf(t, userId) == <<"receipt", t, userId>>

\* The store as an earlier session left it: a chat of u1 and u2 holding one
\* message, and a membership row of u1 whose chat row has been deleted.
SeedChatId == ChatIdOf(0)
GoneChatId == ChatIdOf(-1)
SeedMessageId == MessageIdOf(0)

EmptyDb ==
    [chats |-> <<>>, chatParticipants |-> <<>>, messages |-> <<>>,
     messageReadReceipts |-> <<>>]

SeedDb ==
    [chats |-> <<[id |-> SeedChatId]>>,
     chatParticipants |->
        << [id |-> ParticipantRowIdOf(GoneChatId, "u1"), chatId |-> GoneChatId, userId |-> "u1"],
           [id |-> ParticipantRowIdOf(SeedChatId, "u1"), chatId |-> SeedChatId, userId |-> "u1"],
           [id |-> ParticipantRowIdOf(SeedChatId, "u2"), chatId |-> SeedChatId, userId |-> "u2"] >>,
     messages |->
        << [id |-> SeedMessageId, chatId |-> SeedChatId, senderId |-> "u1",
            text |-> <<"h">>, timestamp |-> 0, messageType |-> "text",
            imageUri |-> None, imagePreviewUri |-> None, status |-> "sent"] >>,
     messageReadReceipts |-> <<>>]

\* The arguments the callbacks are invoked with: the seeded chat and message, and
\* the ids the first millisecond generates (unknown to the store until then).
ChatIdArgs == {SeedChatId, ChatIdOf(1)}
MessageIdArgs == {SeedMessageId, MessageIdOf(1)}
SenderArgs == {"u2"}

----------------------------------------------------------------------------
(* Sequence helpers *)

MapSeq(s, F(_)) == [i \in 1..Len(s) |-> F(s[i])]

Range(s) == {s[i] : i \in 1..Len(s)}

\* participantIds.includes(currentUserId)
Includes(s, v) == \E i \in 1..Len(s) : s[i] = v

\* text.trim(): drop the leading and the trailing whitespace
RECURSIVE TrimStart(_)
TrimStart(s) ==
    IF s = <<>> THEN <<>>
    ELSE IF Head(s) = " " THEN TrimStart(Tail(s)) ELSE s

RECURSIVE TrimEnd(_)
TrimEnd(s) ==
    IF s = <<>> THEN <<>>
    ELSE IF s[Len(s)] = " " THEN TrimEnd(SubSeq(s, 1, Len(s) - 1)) ELSE s

Trim(s) == TrimEnd(TrimStart(s))

RECURSIVE InsertByTimestamp(_, _)
InsertByTimestamp(sorted, row) ==
    IF sorted = <<>> THEN <<row>>
    ELSE IF Head(sorted).timestamp <= row.timestamp
         THEN <<Head(sorted)>> \o InsertByTimestamp(Tail(sorted), row)
         ELSE <<row>> \o sorted

RECURSIVE OrderByTimestamp(_)
\* .orderBy(messages.timestamp): ascending, rows of equal timestamp in table order
OrderByTimestamp(rows) ==
    IF rows = <<>> THEN <<>>
    ELSE InsertByTimestamp(OrderByTimestamp(SubSeq(rows, 1, Len(rows) - 1)), rows[Len(rows)])

----------------------------------------------------------------------------
(* The store *)

\* A table's id column is its primary key: an insert of an id the table holds fails.
PrimaryKeyFree(rows, id) == \A i \in 1..Len(rows) : rows[i].id # id

\* db.insert(table).values(row), reached with the store answering (ok) or failing
InsertSucceeds(ok, rows, row) == ok /\ PrimaryKeyFree(rows, row.id)

\* db.update(messages).set({ status: 'read' }).where(eq(messages.id, messageId))
UpdateStatusRead(rows, messageId) ==
    [i \in 1..Len(rows) |->
        IF rows[i].id = messageId THEN [rows[i] EXCEPT !.status = "read"] ELSE rows[i]]

----------------------------------------------------------------------------
(* The cached projection *)

\* readReceiptsData.reduce(...)[messageId] || []: the receipts of one message,
\* in the order the query returned them
ReadReceiptsOf(readReceiptsData, messageId) ==
    MapSeq(SelectSeq(readReceiptsData, LAMBDA r : r.messageId = messageId),
           LAMBDA r : [userId |-> r.userId, timestamp |-> r.timestamp])

\* messagesData.map(m => ({ ...columns, readBy }))
ChatMessages(messagesData, readReceiptsData) ==
    MapSeq(messagesData,
           LAMBDA m : [id |-> m.id, senderId |-> m.senderId, text |-> m.text,
                       timestamp |-> m.timestamp, messageType |-> m.messageType,
                       imageUri |-> m.imageUri, imagePreviewUri |-> m.imagePreviewUri,
                       status |-> m.status,
                       readBy |-> ReadReceiptsOf(readReceiptsData, m.id)])

\* chatMessages.length > 0 ? chatMessages[chatMessages.length - 1] : undefined
LastMessageOf(chatMessages) ==
    IF Len(chatMessages) > 0 THEN Some(chatMessages[Len(chatMessages)]) ELSE None

\* the Chat pushed onto loadedChats
LoadedChat(chatId, participantIds, messagesData, readReceiptsData) ==
    LET chatMessages == ChatMessages(messagesData, readReceiptsData) IN
    [id |-> chatId, participants |-> participantIds, messages |-> chatMessages,
     lastMessage |-> LastMessageOf(chatMessages)]

\* createChat's newChat: no lastMessage
NewChat(chatId, participantIds) ==
    [id |-> chatId, participants |-> participantIds, messages |-> <<>>,
     lastMessage |-> None]

\* Faulty variant: the new chat is put first.
WithNewChatFirst(prevChats, newChat) == <<newChat>> \o prevChats

\* setUserChats(prevChats => [...prevChats, newChat])
WithNewChat(prevChats, newChat) == Append(prevChats, newChat)

\* sendMessage's newMessage
NewMessage(messageId, senderId, text, timestamp, imageData) ==
    [id |-> messageId, senderId |-> senderId, text |-> text, timestamp |-> timestamp,
     messageType |-> IF imageData # None THEN "image" ELSE "text",
     imageUri |-> IF imageData # None THEN Some(imageData[1].uri) ELSE None,
     imagePreviewUri |-> IF imageData # None THEN Some(imageData[1].previewUri) ELSE None,
     status |-> "sent", readBy |-> <<>>]

\* Faulty variant: the row is filed under a chat id generated from the clock
\* instead of the chat id passed in.
MessageRowUnderFreshChat(messageId, chatId, senderId, text, timestamp, imageData) ==
    [id |-> messageId, chatId |-> ChatIdOf(timestamp), senderId |-> senderId, text |-> text,
     timestamp |-> timestamp,
     messageType |-> IF imageData # None THEN "image" ELSE "text",
     imageUri |-> IF imageData # None THEN Some(imageData[1].uri) ELSE None,
     imagePreviewUri |-> IF imageData # None THEN Some(imageData[1].previewUri) ELSE None,
     status |-> "sent"]

\* the row sendMessage inserts
MessageRow(messageId, chatId, senderId, text, timestamp, imageData) ==
    [id |-> messageId, chatId |-> chatId, senderId |-> senderId, text |-> text,
     timestamp |-> timestamp,
     messageType |-> IF imageData # None THEN "image" ELSE "text",
     imageUri |-> IF imageData # None THEN Some(imageData[1].uri) ELSE None,
     imagePreviewUri |-> IF imageData # None THEN Some(imageData[1].previewUri) ELSE None,
     status |-> "sent"]

\* Faulty variant: lastMessage is not set.
WithNewMessageKeepingLast(prevChats, chatId, newMessage) ==
    MapSeq(prevChats,
           LAMBDA chat :
               IF chat.id = chatId
               THEN [chat EXCEPT !.messages = Append(chat.messages, newMessage)]
               ELSE chat)

\* setUserChats(prevChats => prevChats.map(chat => chat.id === chatId ? {...} : chat))
WithNewMessage(prevChats, chatId, newMessage) ==
    MapSeq(prevChats,
           LAMBDA chat :
               IF chat.id = chatId
               THEN [chat EXCEPT !.messages = Append(chat.messages, newMessage),
                                 !.lastMessage = Some(newMessage)]
               ELSE chat)

\* Faulty variant: the cached status is left as it was.
WithReadReceiptKeepingStatus(prevChats, messageId, userId, timestamp) ==
    MapSeq(prevChats,
           LAMBDA chat :
               [chat EXCEPT !.messages =
                   MapSeq(chat.messages,
                          LAMBDA msg :
                              IF msg.id = messageId
                              THEN [msg EXCEPT
                                       !.readBy = Append(msg.readBy,
                                                     [userId |-> userId,
                                                      timestamp |-> timestamp])]
                              ELSE msg)])

\* Faulty variant: readBy is rebuilt from the new entry alone.
WithReadReceiptReplacing(prevChats, messageId, userId, timestamp) ==
    MapSeq(prevChats,
           LAMBDA chat :
               [chat EXCEPT !.messages =
                   MapSeq(chat.messages,
                          LAMBDA msg :
                              IF msg.id = messageId
                              THEN [msg EXCEPT
                                       !.status = "read",
                                       !.readBy = <<[userId |-> userId,
                                                     timestamp |-> timestamp]>>]
                              ELSE msg)])

\* setUserChats(prevChats => prevChats.map(chat => ({ ...chat, messages: ... })))
WithReadReceipt(prevChats, messageId, userId, timestamp) ==
    MapSeq(prevChats,
           LAMBDA chat :
               [chat EXCEPT !.messages =
                   MapSeq(chat.messages,
                          LAMBDA msg :
                              IF msg.id = messageId
                              THEN [msg EXCEPT
                                       !.status = "read",
                                       !.readBy = Append(msg.readBy,
                                                     [userId |-> userId,
                                                      timestamp |-> timestamp])]
                              ELSE msg)])

----------------------------------------------------------------------------
(* Initial state *)

CallSlots == 1..NumCalls
LoadSlots == 1..NumLoads

IdleCall ==
    [op |-> "none", pc |-> "idle", args |-> <<>>, local |-> <<>>,
     result |-> "pending", ret |-> None, fault |-> FALSE]

IdleLoad ==
    [pc |-> "idle", user |-> Null, chatIds |-> <<>>, loadedChats |-> <<>>,
     participantIds |-> <<>>, messagesData |-> <<>>, db0 |-> EmptyDb]

\* the route guard is left aside: its state does not move
RouteIdle ==
    /\ isLoggedIn = FALSE
    /\ authLoading = TRUE
    /\ segments = <<>>
    /\ effectDue = FALSE
    /\ replaced = FALSE
    /\ nRouteOps = 0

Init ==
    /\ currentUserId \in Users \cup {Null}
    /\ mounted = FALSE
    /\ userChats = <<>>
    /\ loading = TRUE
    /\ now = 1
    /\ db \in {EmptyDb, SeedDb}
    /\ calls = [c \in CallSlots |-> IdleCall]
    /\ loads = [l \in LoadSlots |-> IdleLoad]
    /\ nOps = 0
    /\ RouteIdle

\* Date.now() moves on between any two steps
Tick ==
    /\ now < MaxClock
    /\ now' = now + 1
    /\ UNCHANGED <<currentUserId, mounted, userChats, loading, db, calls, loads, nOps, routeVars>>

\* a second Date.now() in the same synchronous block reads the same millisecond or the next
LaterReads == {t \in {now, now + 1} : t <= MaxClock}

----------------------------------------------------------------------------
(* The identity effect and loadChats *)

LoadFree(l) == loads[l].pc \in {"idle", "done", "failed"}
FirstFreeLoad(l) == LoadFree(l) /\ \A k \in LoadSlots : k < l => ~LoadFree(k)

\* Faulty variant: starting a load raises the loading flag again.
RunEffectShowingLoading(u) ==
    IF u = Null
    THEN /\ userChats' = <<>>
         /\ loading' = FALSE
         /\ UNCHANGED loads
    ELSE /\ \E l \in LoadSlots :
              /\ FirstFreeLoad(l)
              /\ loads' = [loads EXCEPT ![l] =
                              [IdleLoad EXCEPT !.pc = "qMemberships", !.user = u, !.db0 = db]]
         /\ loading' = TRUE
         /\ UNCHANGED userChats

\* the body of useEffect for the identity u
RunEffect(u) ==
    IF u = Null
    THEN /\ userChats' = <<>>
         /\ loading' = FALSE
         /\ UNCHANGED loads
    ELSE /\ \E l \in LoadSlots :
              /\ FirstFreeLoad(l)
              /\ loads' = [loads EXCEPT ![l] =
                              [IdleLoad EXCEPT !.pc = "qMemberships", !.user = u, !.db0 = db]]
         /\ UNCHANGED <<userChats, loading>>

\* the first render's effect
Mount ==
    /\ ~mounted
    /\ mounted' = TRUE
    /\ RunEffect(currentUserId)
    /\ UNCHANGED <<currentUserId, now, db, calls, nOps, routeVars>>

\* the hook is rendered with another identity: the effect runs again
SetUser(u) ==
    /\ mounted
    /\ nOps < MaxOps
    /\ u # currentUserId
    /\ currentUserId' = u
    /\ nOps' = nOps + 1
    /\ RunEffect(u)
    /\ UNCHANGED <<mounted, now, db, calls, routeVars>>

\* Faulty variant: the failed load empties the cached list.
LoadAbandonClearing(l) ==
    /\ loads' = [loads EXCEPT ![l] = [IdleLoad EXCEPT !.pc = "failed", !.user = loads[l].user]]
    /\ loading' = FALSE
    /\ userChats' = <<>>

\* catch: log; finally: setLoading(false)
LoadAbandon(l) ==
    /\ loads' = [loads EXCEPT ![l] = [IdleLoad EXCEPT !.pc = "failed", !.user = loads[l].user]]
    /\ loading' = FALSE
    /\ UNCHANGED userChats

\* Faulty variant (for the code as written): the result of a load whose user is no
\* longer the current one is dropped.
LoadCommitUnlessStale(l, loadedChats) ==
    /\ loads' = [loads EXCEPT ![l] = [IdleLoad EXCEPT !.pc = "done", !.user = loads[l].user]]
    /\ userChats' = IF loads[l].user = currentUserId THEN loadedChats ELSE userChats
    /\ loading' = FALSE

\* setUserChats(loadedChats); finally: setLoading(false)
LoadCommit(l, loadedChats) ==
    /\ loads' = [loads EXCEPT ![l] = [IdleLoad EXCEPT !.pc = "done", !.user = loads[l].user]]
    /\ userChats' = loadedChats
    /\ loading' = FALSE

\* the end of one turn of the for loop: the next chatId, or the end of the loop
LoadNextChat(l, loadedChats) ==
    IF Len(loads[l].chatIds) <= 1
    THEN LoadCommit(l, loadedChats)
    ELSE /\ loads' = [loads EXCEPT ![l].pc = "qChat", ![l].loadedChats = loadedChats,
                                   ![l].chatIds = Tail(@), ![l].participantIds = <<>>,
                                   ![l].messagesData = <<>>]
         /\ UNCHANGED <<userChats, loading>>

\* participantData = select from chatParticipants where userId = currentUserId
LoadMemberships(l, ok) ==
    /\ loads[l].pc = "qMemberships"
    /\ IF ~ok THEN LoadAbandon(l)
       ELSE LET participantData ==
                    SelectSeq(db.chatParticipants, LAMBDA p : p.userId = loads[l].user)
                chatIds == MapSeq(participantData, LAMBDA p : p.chatId)
            IN  IF chatIds = <<>>
                THEN LoadCommit(l, <<>>)
                ELSE /\ loads' = [loads EXCEPT ![l].pc = "qChat", ![l].chatIds = chatIds]
                     /\ UNCHANGED <<userChats, loading>>
    /\ UNCHANGED <<currentUserId, mounted, now, db, calls, nOps, routeVars>>

\* Faulty variant: the missing chat row is not noticed.
NeverSkipsChat(chatData) == FALSE

\* a chat whose row is missing is left out of loadedChats
SkipsChat(chatData) == Len(chatData) = 0

\* chatData = select from chats where id = chatId; if (chatData.length === 0) continue
LoadChatRow(l, ok) ==
    /\ loads[l].pc = "qChat"
    /\ IF ~ok THEN LoadAbandon(l)
       ELSE LET chatData == SelectSeq(db.chats, LAMBDA r : r.id = Head(loads[l].chatIds))
            IN  IF SkipsChat(chatData)
                THEN LoadNextChat(l, loads[l].loadedChats)
                ELSE /\ loads' = [loads EXCEPT ![l].pc = "qParticipants"]
                     /\ UNCHANGED <<userChats, loading>>
    /\ UNCHANGED <<currentUserId, mounted, now, db, calls, nOps, routeVars>>

\* participantsData = select from chatParticipants where chatId = chatId
LoadParticipants(l, ok) ==
    /\ loads[l].pc = "qParticipants"
    /\ IF ~ok THEN LoadAbandon(l)
       ELSE LET participantsData ==
                    SelectSeq(db.chatParticipants,
                              LAMBDA p : p.chatId = Head(loads[l].chatIds))
            IN  /\ loads' = [loads EXCEPT
                                ![l].pc = "qMessages",
                                ![l].participantIds =
                                    MapSeq(participantsData, LAMBDA p : p.userId)]
                /\ UNCHANGED <<userChats, loading>>
    /\ UNCHANGED <<currentUserId, mounted, now, db, calls, nOps, routeVars>>

\* messagesData = select from messages where chatId = chatId order by timestamp
MessagesOfChat(rows, chatId) ==
    OrderByTimestamp(SelectSeq(rows, LAMBDA m : m.chatId = chatId))

LoadMessages(l, ok) ==
    /\ loads[l].pc = "qMessages"
    /\ IF ~ok THEN LoadAbandon(l)
       ELSE /\ loads' = [loads EXCEPT
                            ![l].pc = "qReceipts",
                            ![l].messagesData =
                                MessagesOfChat(db.messages, Head(loads[l].chatIds))]
            /\ UNCHANGED <<userChats, loading>>
    /\ UNCHANGED <<currentUserId, mounted, now, db, calls, nOps, routeVars>>

\* readReceiptsData = select from messageReadReceipts where messageId in messageIds;
\* then the chat is assembled and pushed
LoadReceipts(l, ok) ==
    /\ loads[l].pc = "qReceipts"
    /\ IF ~ok THEN LoadAbandon(l)
       ELSE LET messageIds == Range(MapSeq(loads[l].messagesData, LAMBDA m : m.id))
                readReceiptsData ==
                    SelectSeq(db.messageReadReceipts, LAMBDA r : r.messageId \in messageIds)
                chat == LoadedChat(Head(loads[l].chatIds), loads[l].participantIds,
                                   loads[l].messagesData, readReceiptsData)
            IN  LoadNextChat(l, Append(loads[l].loadedChats, chat))
    /\ UNCHANGED <<currentUserId, mounted, now, db, calls, nOps, routeVars>>

----------------------------------------------------------------------------
(* The callbacks *)

CallFree(c) == calls[c].pc \in {"idle", "done"}
FirstFreeCall(c) == CallFree(c) /\ \A k \in CallSlots : k < c => ~CallFree(k)

\* the call has returned: result is "null", "false", "true" or "chat" (with ret the Chat)
Returned(call, result, ret, fault) ==
    [call EXCEPT !.pc = "done", !.local = <<>>, !.result = result, !.ret = ret,
                 !.fault = fault]

\* Faulty variant: the membership test is forgotten.
CreateChatRejectsOnlyAbsent(userId, participantIds) == userId = Null

\* if (!currentUserId || !participantIds.includes(currentUserId)) return null
CreateChatRejects(userId, participantIds) ==
    userId = Null \/ ~Includes(participantIds, userId)

\* createChat(participantIds) up to its first await
CallCreateChat(c, participantIds) ==
    /\ mounted
    /\ nOps < MaxOps
    /\ FirstFreeCall(c)
    /\ nOps' = nOps + 1
    /\ LET call == [IdleCall EXCEPT !.op = "createChat",
                                    !.args = [participantIds |-> participantIds]]
       IN  IF CreateChatRejects(currentUserId, participantIds)
           THEN calls' = [calls EXCEPT ![c] = Returned(call, "null", None, FALSE)]
           ELSE calls' = [calls EXCEPT ![c] =
                             [call EXCEPT !.pc = "insertChat",
                                          !.local = [chatId |-> ChatIdOf(now), k |-> 1]]]
    /\ UNCHANGED <<currentUserId, mounted, userChats, loading, now, db, loads, routeVars>>

\* await db.insert(chats).values({ id: chatId })
CreateChatInsertChat(c, ok) ==
    /\ calls[c].pc = "insertChat"
    /\ LET row == [id |-> calls[c].local.chatId] IN
       IF InsertSucceeds(ok, db.chats, row)
       THEN /\ db' = [db EXCEPT !.chats = Append(@, row)]
            /\ calls' = [calls EXCEPT ![c].pc = "insertParticipant"]
       ELSE /\ calls' = [calls EXCEPT ![c] = Returned(@, "null", None, ~ok)]
            /\ UNCHANGED db
    /\ UNCHANGED <<currentUserId, mounted, userChats, loading, now, loads, nOps, routeVars>>

\* Faulty variant: a failed participant insert takes back the rows of the chat.
CreateChatInsertParticipantRollingBack(c, ok) ==
    /\ calls[c].pc = "insertParticipant"
    /\ LET participantIds == calls[c].args.participantIds
           chatId == calls[c].local.chatId
           k == calls[c].local.k
           row == [id |-> ParticipantRowIdOf(chatId, participantIds[k]),
                   chatId |-> chatId, userId |-> participantIds[k]]
           newChat == NewChat(chatId, participantIds)
       IN  IF InsertSucceeds(ok, db.chatParticipants, row)
           THEN /\ db' = [db EXCEPT !.chatParticipants = Append(@, row)]
                /\ IF k < Len(participantIds)
                   THEN /\ calls' = [calls EXCEPT ![c].local.k = k + 1]
                        /\ UNCHANGED userChats
                   ELSE /\ userChats' = WithNewChat(userChats, newChat)
                        /\ calls' = [calls EXCEPT ![c] =
                                        Returned(@, "chat", Some(newChat), FALSE)]
           ELSE /\ calls' = [calls EXCEPT ![c] = Returned(@, "null", None, ~ok)]
                /\ db' = [db EXCEPT
                             !.chats = SelectSeq(@, LAMBDA r : r.id # chatId),
                             !.chatParticipants = SelectSeq(@, LAMBDA p : p.chatId # chatId)]
                /\ UNCHANGED userChats
    /\ UNCHANGED <<currentUserId, mounted, loading, now, loads, nOps, routeVars>>

\* await db.insert(chatParticipants).values(...) for the k-th id; after the last
\* one, setUserChats(prevChats => [...prevChats, newChat]) and return newChat
CreateChatInsertParticipant(c, ok) ==
    /\ calls[c].pc = "insertParticipant"
    /\ LET participantIds == calls[c].args.participantIds
           chatId == calls[c].local.chatId
           k == calls[c].local.k
           row == [id |-> ParticipantRowIdOf(chatId, participantIds[k]),
                   chatId |-> chatId, userId |-> participantIds[k]]
           newChat == NewChat(chatId, participantIds)
       IN  IF InsertSucceeds(ok, db.chatParticipants, row)
           THEN /\ db' = [db EXCEPT !.chatParticipants = Append(@, row)]
                /\ IF k < Len(participantIds)
                   THEN /\ calls' = [calls EXCEPT ![c].local.k = k + 1]
                        /\ UNCHANGED userChats
                   ELSE /\ userChats' = WithNewChat(userChats, newChat)
                        /\ calls' = [calls EXCEPT ![c] =
                                        Returned(@, "chat", Some(newChat), FALSE)]
           ELSE /\ calls' = [calls EXCEPT ![c] = Returned(@, "null", None, ~ok)]
                /\ UNCHANGED <<db, userChats>>
    /\ UNCHANGED <<currentUserId, mounted, loading, now, loads, nOps, routeVars>>

\* Faulty variant: the text is not trimmed.
SendMessageRejectsEmpty(text, imageData) == text = <<>> /\ imageData = None

\* if (!text.trim() && !imageData) return false
SendMessageRejects(text, imageData) == Trim(text) = <<>> /\ imageData = None

\* sendMessage(chatId, text, senderId, imageData) up to its first await
CallSendMessage(c, chatId, text, senderId, imageData) ==
    /\ mounted
    /\ nOps < MaxOps
    /\ FirstFreeCall(c)
    /\ nOps' = nOps + 1
    /\ LET call == [IdleCall EXCEPT
                       !.op = "sendMessage",
                       !.args = [chatId |-> chatId, text |-> text, senderId |-> senderId,
                                 imageData |-> imageData]]
       IN  IF SendMessageRejects(text, imageData)
           THEN /\ calls' = [calls EXCEPT ![c] = Returned(call, "false", None, FALSE)]
                /\ UNCHANGED now
           ELSE \E timestamp \in LaterReads :
                    /\ now' = timestamp
                    /\ calls' = [calls EXCEPT ![c] =
                                    [call EXCEPT !.pc = "insertMessage",
                                                 !.local = [messageId |-> MessageIdOf(now),
                                                            timestamp |-> timestamp]]]
    /\ UNCHANGED <<currentUserId, mounted, userChats, loading, db, loads, routeVars>>

\* Faulty variant: the cached list is updated before the insert is known to have
\* succeeded.
SendMessageInsertOptimistic(c, ok) ==
    /\ calls[c].pc = "insertMessage"
    /\ LET a == calls[c].args
           messageId == calls[c].local.messageId
           timestamp == calls[c].local.timestamp
           row == MessageRow(messageId, a.chatId, a.senderId, a.text, timestamp, a.imageData)
           newMessage == NewMessage(messageId, a.senderId, a.text, timestamp, a.imageData)
       IN  /\ userChats' = WithNewMessage(userChats, a.chatId, newMessage)
           /\ IF InsertSucceeds(ok, db.messages, row)
              THEN /\ db' = [db EXCEPT !.messages = Append(@, row)]
                   /\ calls' = [calls EXCEPT ![c] = Returned(@, "true", None, FALSE)]
              ELSE /\ calls' = [calls EXCEPT ![c] = Returned(@, "false", None, ~ok)]
                   /\ UNCHANGED db
    /\ UNCHANGED <<currentUserId, mounted, loading, now, loads, nOps, routeVars>>

\* Faulty variant: a rejected insert is not noticed; the message is cached and
\* true is returned all the same.
SendMessageInsertUnnoticed(c, ok) ==
    /\ calls[c].pc = "insertMessage"
    /\ LET a == calls[c].args
           messageId == calls[c].local.messageId
           timestamp == calls[c].local.timestamp
           row == MessageRow(messageId, a.chatId, a.senderId, a.text, timestamp, a.imageData)
           newMessage == NewMessage(messageId, a.senderId, a.text, timestamp, a.imageData)
       IN  /\ userChats' = WithNewMessage(userChats, a.chatId, newMessage)
           /\ calls' = [calls EXCEPT ![c] = Returned(@, "true", None, FALSE)]
           /\ IF InsertSucceeds(ok, db.messages, row)
              THEN db' = [db EXCEPT !.messages = Append(@, row)]
              ELSE UNCHANGED db
    /\ UNCHANGED <<currentUserId, mounted, loading, now, loads, nOps, routeVars>>

\* await db.insert(messages).values(...); then setUserChats(...) and return true
SendMessageInsert(c, ok) ==
    /\ calls[c].pc = "insertMessage"
    /\ LET a == calls[c].args
           messageId == calls[c].local.messageId
           timestamp == calls[c].local.timestamp
           row == MessageRow(messageId, a.chatId, a.senderId, a.text, timestamp, a.imageData)
           newMessage == NewMessage(messageId, a.senderId, a.text, timestamp, a.imageData)
       IN  IF InsertSucceeds(ok, db.messages, row)
           THEN /\ db' = [db EXCEPT !.messages = Append(@, row)]
                /\ userChats' = WithNewMessage(userChats, a.chatId, newMessage)
                /\ calls' = [calls EXCEPT ![c] = Returned(@, "true", None, FALSE)]
           ELSE /\ calls' = [calls EXCEPT ![c] = Returned(@, "false", None, ~ok)]
                /\ UNCHANGED <<db, userChats>>
    /\ UNCHANGED <<currentUserId, mounted, loading, now, loads, nOps, routeVars>>

\* markMessageAsRead(messageId, userId) up to its first await
CallMarkMessageAsRead(c, messageId, userId) ==
    /\ mounted
    /\ nOps < MaxOps
    /\ FirstFreeCall(c)
    /\ nOps' = nOps + 1
    /\ \E timestamp \in LaterReads :
          /\ now' = timestamp
          /\ calls' = [calls EXCEPT ![c] =
                          [IdleCall EXCEPT
                              !.op = "markMessageAsRead",
                              !.pc = "insertReceipt",
                              !.args = [messageId |-> messageId, userId |-> userId],
                              !.local = [receiptId |-> ReceiptIdOf(now, userId),
                                         timestamp |-> timestamp]]]
    /\ UNCHANGED <<currentUserId, mounted, userChats, loading, db, loads, routeVars>>

\* Faulty variant: a failed receipt insert is swallowed and the status update follows.
MarkInsertReceiptCarryingOn(c, ok) ==
    /\ calls[c].pc = "insertReceipt"
    /\ LET row == [id |-> calls[c].local.receiptId, messageId |-> calls[c].args.messageId,
                   userId |-> calls[c].args.userId, timestamp |-> calls[c].local.timestamp]
       IN  IF InsertSucceeds(ok, db.messageReadReceipts, row)
           THEN /\ db' = [db EXCEPT !.messageReadReceipts = Append(@, row)]
                /\ calls' = [calls EXCEPT ![c].pc = "updateStatus"]
           ELSE /\ calls' = [calls EXCEPT ![c].pc = "updateStatus"]
                /\ UNCHANGED db
    /\ UNCHANGED <<currentUserId, mounted, userChats, loading, now, loads, nOps, routeVars>>

\* await db.insert(messageReadReceipts).values(...)
MarkInsertReceipt(c, ok) ==
    /\ calls[c].pc = "insertReceipt"
    /\ LET row == [id |-> calls[c].local.receiptId, messageId |-> calls[c].args.messageId,
                   userId |-> calls[c].args.userId, timestamp |-> calls[c].local.timestamp]
       IN  IF InsertSucceeds(ok, db.messageReadReceipts, row)
           THEN /\ db' = [db EXCEPT !.messageReadReceipts = Append(@, row)]
                /\ calls' = [calls EXCEPT ![c].pc = "updateStatus"]
           ELSE /\ calls' = [calls EXCEPT ![c] = Returned(@, "false", None, ~ok)]
                /\ UNCHANGED db
    /\ UNCHANGED <<currentUserId, mounted, userChats, loading, now, loads, nOps, routeVars>>

\* await db.update(messages).set({ status: 'read' }); then setUserChats(...) and
\* return true
MarkUpdateStatus(c, ok) ==
    /\ calls[c].pc = "updateStatus"
    /\ IF ok
       THEN /\ db' = [db EXCEPT !.messages = UpdateStatusRead(@, calls[c].args.messageId)]
            /\ userChats' = WithReadReceipt(userChats, calls[c].args.messageId,
                                            calls[c].args.userId, calls[c].local.timestamp)
            /\ calls' = [calls EXCEPT ![c] = Returned(@, "true", None, FALSE)]
       ELSE /\ calls' = [calls EXCEPT ![c] = Returned(@, "false", None, TRUE)]
            /\ UNCHANGED <<db, userChats>>
    /\ UNCHANGED <<currentUserId, mounted, loading, now, loads, nOps, routeVars>>

----------------------------------------------------------------------------
(* Specification *)

Next ==
    \/ Tick
    \/ Mount
    \/ \E u \in Users \cup {Null} : SetUser(u)
    \/ \E l \in LoadSlots, ok \in BOOLEAN : LoadMemberships(l, ok)
    \/ \E l \in LoadSlots, ok \in BOOLEAN : LoadChatRow(l, ok)
    \/ \E l \in LoadSlots, ok \in BOOLEAN : LoadParticipants(l, ok)
    \/ \E l \in LoadSlots, ok \in BOOLEAN : LoadMessages(l, ok)
    \/ \E l \in LoadSlots, ok \in BOOLEAN : LoadReceipts(l, ok)
    \/ \E c \in CallSlots, p \in ParticipantLists : CallCreateChat(c, p)
    \/ \E c \in CallSlots, ok \in BOOLEAN : CreateChatInsertChat(c, ok)
    \/ \E c \in CallSlots, ok \in BOOLEAN : CreateChatInsertParticipant(c, ok)
    \/ \E c \in CallSlots, chatId \in ChatIdArgs, text \in Texts, senderId \in SenderArgs,
          imageData \in Images : CallSendMessage(c, chatId, text, senderId, imageData)
    \/ \E c \in CallSlots, ok \in BOOLEAN : SendMessageInsert(c, ok)
    \/ \E c \in CallSlots, messageId \in MessageIdArgs, userId \in Users :
          CallMarkMessageAsRead(c, messageId, userId)
    \/ \E c \in CallSlots, ok \in BOOLEAN : MarkInsertReceipt(c, ok)
    \/ \E c \in CallSlots, ok \in BOOLEAN : MarkUpdateStatus(c, ok)

Spec == Init /\ [][Next]_vars

----------------------------------------------------------------------------
(* Steps of a behaviour, as the properties below name them *)

\* this step is the invocation of callback op, which takes slot c
Invoked(c, op) ==
    /\ nOps' = nOps + 1
    /\ currentUserId' = currentUserId
    /\ FirstFreeCall(c)
    /\ calls'[c].op = op

\* this step is the one in which the invocation in slot c returns after an await
ReturnsAfterAwait(c) == calls[c].pc \notin {"idle", "done"} /\ calls'[c].pc = "done"

LoadInFlight(l) == loads[l].pc \notin {"idle", "done", "failed"}

\* this step is the one in which load l reaches setUserChats(loadedChats)
LoadCommits(l) == LoadInFlight(l) /\ loads'[l].pc = "done"

\* this step is the one in which load l is abandoned in its catch block
LoadFails(l) == LoadInFlight(l) /\ loads'[l].pc = "failed"

Blank(text) == \A i \in 1..Len(text) : text[i] = " "

CachedMessages(chatList) ==
    UNION {Range(chatList[i].messages) : i \in 1..Len(chatList)}

----------------------------------------------------------------------------
(* createChat *)

\* C1: createChat invoked while the current user id is absent, or with
\* participantIds that do not hold the current user id, returns null at once,
\* writes nothing to the store and leaves the cached chat list as it was.
C1_CreateChatRejected ==
    [][\A c \in CallSlots :
          (/\ Invoked(c, "createChat")
           /\ \/ currentUserId = Null
              \/ \A i \in 1..Len(calls'[c].args.participantIds) :
                    calls'[c].args.participantIds[i] # currentUserId)
          => /\ calls'[c].pc = "done"
             /\ calls'[c].result = "null"
             /\ db' = db
             /\ userChats' = userChats]_vars

C1_Witness ==
    \E c \in CallSlots :
        /\ calls[c].op = "createChat"
        /\ calls[c].pc = "done"
        /\ calls[c].result = "null"
        /\ ~calls[c].fault
        /\ currentUserId = "u1"
        /\ calls[c].args.participantIds = <<"u2">>
        /\ db = SeedDb

\* C2: a createChat whose inserts all succeed returns a Chat with participants
\* equal to participantIds, in order, and no message; the store then holds one
\* chat row of that id and one participant row per listed id, and the cached
\* list is the previous list with that Chat appended at the end.
C2_CreateChatSucceeds ==
    [][\A c \in CallSlots :
          (ReturnsAfterAwait(c) /\ calls[c].op = "createChat" /\ calls'[c].result = "chat")
          => LET chat == calls'[c].ret[1]
                 participantIds == calls[c].args.participantIds
                 rows == SelectSeq(db'.chatParticipants, LAMBDA p : p.chatId = chat.id)
             IN  /\ chat.participants = participantIds
                 /\ chat.messages = <<>>
                 /\ chat.lastMessage = None
                 /\ Len(SelectSeq(db'.chats, LAMBDA r : r.id = chat.id)) = 1
                 /\ MapSeq(rows, LAMBDA p : p.userId) = participantIds
                 /\ Len(userChats') = Len(userChats) + 1
                 /\ userChats'[Len(userChats')] = chat
                 /\ \A i \in 1..Len(userChats) : userChats'[i] = userChats[i]]_vars

C2_Witness ==
    \E c \in CallSlots :
        /\ calls[c].op = "createChat"
        /\ calls[c].result = "chat"
        /\ calls[c].args.participantIds = <<"u2", "u1">>
        /\ Len(userChats) = 2
        /\ userChats[1].id = SeedChatId
        /\ userChats[2] = calls[c].ret[1]
        /\ userChats[2].participants = <<"u2", "u1">>

----------------------------------------------------------------------------
(* sendMessage *)

\* C3: sendMessage invoked without an image and with a text that is empty once
\* trimmed returns false at once, inserts nothing and leaves the cached list as
\* it was; invoked with an image it goes on to the insert whatever the text is.
C3_SendMessageRejected ==
    [][\A c \in CallSlots :
          Invoked(c, "sendMessage")
          => IF calls'[c].args.imageData = None /\ Blank(calls'[c].args.text)
             THEN /\ calls'[c].pc = "done"
                  /\ calls'[c].result = "false"
                  /\ db' = db
                  /\ userChats' = userChats
             ELSE calls'[c].args.imageData # None => calls'[c].pc = "insertMessage"]_vars

C3_Witness ==
    \E c \in CallSlots :
        /\ calls[c].op = "sendMessage"
        /\ calls[c].pc = "done"
        /\ calls[c].result = "false"
        /\ ~calls[c].fault
        /\ calls[c].args.text = <<" ">>
        /\ calls[c].args.imageData = None
        /\ \E d \in CallSlots :
              /\ calls[d].op = "sendMessage"
              /\ calls[d].pc = "insertMessage"
              /\ calls[d].args.text = <<" ">>
              /\ calls[d].args.imageData # None

\* C4: when sendMessage with a non-blank text returns true, every cached chat of
\* id chatId has the new message appended as its last message and as its
\* lastMessage, with the given text and senderId and status sent, and every
\* other cached chat is as it was.
C4_SendMessageCached ==
    [][\A c \in CallSlots :
          (/\ ReturnsAfterAwait(c)
           /\ calls[c].op = "sendMessage"
           /\ calls'[c].result = "true"
           /\ ~Blank(calls[c].args.text))
          => /\ Len(userChats') = Len(userChats)
             /\ \A i \in 1..Len(userChats) :
                   IF userChats[i].id = calls[c].args.chatId
                   THEN LET msgs == userChats'[i].messages
                            m == msgs[Len(msgs)]
                        IN  /\ Len(msgs) = Len(userChats[i].messages) + 1
                            /\ SubSeq(msgs, 1, Len(msgs) - 1) = userChats[i].messages
                            /\ m.id = calls[c].local.messageId
                            /\ m.text = calls[c].args.text
                            /\ m.senderId = calls[c].args.senderId
                            /\ m.status = "sent"
                            /\ userChats'[i].lastMessage = Some(m)
                            /\ userChats'[i].id = userChats[i].id
                            /\ userChats'[i].participants = userChats[i].participants
                   ELSE userChats'[i] = userChats[i]]_vars

C4_Witness ==
    \E c \in CallSlots :
        /\ calls[c].op = "sendMessage"
        /\ calls[c].result = "true"
        /\ calls[c].args.text = <<"h">>
        /\ \E i \in 1..Len(userChats) :
              /\ userChats[i].id = calls[c].args.chatId
              /\ Len(userChats[i].messages) = 2
              /\ userChats[i].messages[2].senderId = calls[c].args.senderId
              /\ userChats[i].messages[2].status = "sent"
              /\ userChats[i].lastMessage = Some(userChats[i].messages[2])

----------------------------------------------------------------------------
(* markMessageAsRead *)

\* C5: when markMessageAsRead returns true, the store holds a receipt row for
\* (messageId, userId), every message row of that id has status read, and every
\* cached message of that id has status read and a readBy entry for userId.
C5_MarkedAsRead ==
    [][\A c \in CallSlots :
          (/\ ReturnsAfterAwait(c)
           /\ calls[c].op = "markMessageAsRead"
           /\ calls'[c].result = "true")
          => LET messageId == calls[c].args.messageId
                 userId == calls[c].args.userId
             IN  /\ \E r \in Range(db'.messageReadReceipts) :
                        r.messageId = messageId /\ r.userId = userId
                 /\ \A m \in Range(db'.messages) : m.id = messageId => m.status = "read"
                 /\ \A m \in CachedMessages(userChats') :
                        m.id = messageId
                        => /\ m.status = "read"
                           /\ \E e \in Range(m.readBy) : e.userId = userId]_vars

C5_Witness ==
    \E c \in CallSlots :
        /\ calls[c].op = "markMessageAsRead"
        /\ calls[c].result = "true"
        /\ \E m \in CachedMessages(userChats) :
              /\ m.id = calls[c].args.messageId
              /\ m.status = "read"
              /\ \E e \in Range(m.readBy) : e.userId = calls[c].args.userId
        /\ \E m \in Range(db.messages) :
              m.id = calls[c].args.messageId /\ m.status = "read"

\* C6: markMessageAsRead does not deduplicate: every call whose receipt insert
\* reaches a store that answers adds a receipt row of its own, also when an
\* earlier call for the same userId took its receipt id in the same millisecond.
C6_EveryCallAddsReceipt ==
    [][\A c \in CallSlots :
          (/\ calls[c].pc = "insertReceipt"
           /\ calls'[c].pc # "insertReceipt"
           /\ ~calls'[c].fault)
          => Len(db'.messageReadReceipts) = Len(db.messageReadReceipts) + 1]_vars

----------------------------------------------------------------------------
(* loadChats *)

\* how often e occurs in s
Occurrences(s, e) == Cardinality({i \in 1..Len(s) : s[i] = e})

\* the cached message cm shows the message row with its receipt rows
ShowsMessage(cm, row, store) ==
    LET receipts ==
            MapSeq(SelectSeq(store.messageReadReceipts, LAMBDA r : r.messageId = row.id),
                   LAMBDA r : [userId |-> r.userId, timestamp |-> r.timestamp])
    IN  /\ cm.id = row.id
        /\ cm.senderId = row.senderId
        /\ cm.text = row.text
        /\ cm.timestamp = row.timestamp
        /\ cm.messageType = row.messageType
        /\ cm.imageUri = row.imageUri
        /\ cm.imagePreviewUri = row.imagePreviewUri
        /\ cm.status = row.status
        /\ Len(cm.readBy) = Len(receipts)
        /\ \A e \in Range(receipts) : Occurrences(cm.readBy, e) = Occurrences(receipts, e)

\* chatList is what the store holds for user: the chats that have a chat row and
\* a membership row of user, once each, with all their participants, their
\* messages in ascending timestamp order with the receipts of each, and the
\* highest-timestamp message (or none) as lastMessage
Mirrors(chatList, store, user) ==
    /\ {chatList[i].id : i \in 1..Len(chatList)} =
          {r.id : r \in {r \in Range(store.chats) :
                            \E p \in Range(store.chatParticipants) :
                                p.chatId = r.id /\ p.userId = user}}
    /\ \A i, j \in 1..Len(chatList) : chatList[i].id = chatList[j].id => i = j
    /\ \A i \in 1..Len(chatList) :
          LET chat == chatList[i]
              pRows == SelectSeq(store.chatParticipants, LAMBDA p : p.chatId = chat.id)
              mRows == SelectSeq(store.messages, LAMBDA m : m.chatId = chat.id)
          IN  /\ Len(chat.participants) = Len(pRows)
              /\ Range(chat.participants) = {p.userId : p \in Range(pRows)}
              /\ Len(chat.messages) = Len(mRows)
              /\ \A k \in 1..(Len(chat.messages) - 1) :
                    chat.messages[k].timestamp <= chat.messages[k + 1].timestamp
              /\ \A row \in Range(mRows) :
                    \E k \in 1..Len(chat.messages) : ShowsMessage(chat.messages[k], row, store)
              /\ IF chat.messages = <<>>
                 THEN chat.lastMessage = None
                 ELSE /\ Len(chat.lastMessage) = 1
                      /\ chat.lastMessage[1] \in Range(chat.messages)
                      /\ \A m \in Range(chat.messages) :
                            m.timestamp <= chat.lastMessage[1].timestamp

C8_LoadMirrorsStore ==
    [][\A l \in LoadSlots :
          LoadCommits(l) => Mirrors(userChats', db', loads[l].user)]_vars

\* C9: a load whose query fails leaves the cached list as it is and clears the
\* loading flag; no step of a load other than its final setUserChats touches the
\* cached list, so chats cached for an earlier user are kept.
C9_FailedLoadKeepsCache ==
    [][\A l \in LoadSlots :
          /\ LoadFails(l) => (userChats' = userChats /\ loading' = FALSE)
          /\ (loads'[l] # loads[l] /\ loads'[l].pc \notin {"idle", "done"})
             => userChats' = userChats]_vars

C9_Witness ==
    \E l \in LoadSlots :
        /\ loads[l].pc = "failed"
        /\ loads[l].user = "u2"
        /\ currentUserId = "u2"
        /\ loading = FALSE
        /\ userChats # <<>>
        /\ \E k \in LoadSlots : loads[k].pc = "done" /\ loads[k].user = "u1"

----------------------------------------------------------------------------
(* Failure of a store write *)

FailureSignal(op) == IF op = "createChat" THEN "null" ELSE "false"

\* C10: a createChat, sendMessage or markMessageAsRead whose store write fails
\* returns its failure signal (null for createChat, false for the others) in
\* that very step, without writing again, and leaves the cached list as it was.
C10_WriteFailureIsSignalled ==
    [][\A c \in CallSlots :
          (ReturnsAfterAwait(c) /\ calls'[c].result \notin {"chat", "true"})
          => /\ calls'[c].result = FailureSignal(calls[c].op)
             /\ userChats' = userChats
             /\ db' = db]_vars

C10_Witness ==
    \E c \in CallSlots :
        /\ calls[c].op = "sendMessage"
        /\ calls[c].pc = "done"
        /\ calls[c].fault
        /\ calls[c].result = "false"
        /\ calls[c].args.chatId = SeedChatId
        /\ Len(userChats) = 1
        /\ userChats[1].id = SeedChatId
        /\ Len(userChats[1].messages) = 1
        /\ db = SeedDb

----------------------------------------------------------------------------
(* Writes that are not atomic *)

\* C11: when the insert of the k-th participant row of a createChat fails, the
\* chat row and the k-1 participant rows inserted before stay in the store, no
\* further row is inserted, the call returns null and the cached list is as it
\* was.
C11_CreateChatNoRollback ==
    [][\A c \in CallSlots :
          (/\ ReturnsAfterAwait(c)
           /\ calls[c].pc = "insertParticipant"
           /\ calls'[c].result # "chat")
          => LET chatId == calls[c].local.chatId
                 k == calls[c].local.k
                 rows == SelectSeq(db'.chatParticipants, LAMBDA p : p.chatId = chatId)
             IN  /\ calls'[c].result = "null"
                 /\ \E r \in Range(db'.chats) : r.id = chatId
                 /\ MapSeq(rows, LAMBDA p : p.userId) =
                       SubSeq(calls[c].args.participantIds, 1, k - 1)
                 /\ db' = db
                 /\ userChats' = userChats]_vars

C11_Witness ==
    \E c \in CallSlots :
        /\ calls[c].op = "createChat"
        /\ calls[c].pc = "done"
        /\ calls[c].result = "null"
        /\ calls[c].fault
        /\ calls[c].args.participantIds = <<"u2", "u1">>
        /\ \E r \in Range(db.chats) :
              /\ r.id # SeedChatId
              /\ MapSeq(SelectSeq(db.chatParticipants, LAMBDA p : p.chatId = r.id),
                        LAMBDA p : p.userId) = <<"u2">>
              /\ \A i \in 1..Len(userChats) : userChats[i].id # r.id

\* C12: in markMessageAsRead the receipt insert comes before the status update:
\* a call is at its status update only with its receipt row in the store, and a
\* message status changes only in such a step.  A failed receipt insert ends
\* the call with false and no status update; a failed status update ends it
\* with false, the receipt row kept and the stored status as it was; in both
\* cases the cached list is as it was.
C12_MarkWritesInOrder ==
    [][/\ \A c \in CallSlots :
             /\ calls'[c].pc = "updateStatus"
                => \E r \in Range(db'.messageReadReceipts) :
                      /\ r.id = calls'[c].local.receiptId
                      /\ r.userId = calls'[c].args.userId
             /\ (calls[c].pc = "insertReceipt" /\ calls'[c].pc \notin {"insertReceipt", "updateStatus"})
                => /\ calls'[c].pc = "done"
                   /\ calls'[c].result = "false"
                   /\ db' = db
                   /\ userChats' = userChats
             /\ (calls[c].pc = "updateStatus" /\ calls'[c] # calls[c] /\ calls'[c].result # "true")
                => /\ calls'[c].pc = "done"
                   /\ calls'[c].result = "false"
                   /\ db' = db
                   /\ userChats' = userChats
       /\ (\E i \in 1..Len(db.messages) : db'.messages[i].status # db.messages[i].status)
          => \E c \in CallSlots : calls[c].pc = "updateStatus" /\ calls'[c].result = "true"]_vars

C12_Witness ==
    \E c \in CallSlots :
        /\ calls[c].op = "markMessageAsRead"
        /\ calls[c].pc = "done"
        /\ calls[c].result = "false"
        /\ calls[c].fault
        /\ calls[c].args.messageId = SeedMessageId
        /\ Len(db.messageReadReceipts) = 1
        /\ db.messageReadReceipts[1].messageId = SeedMessageId
        /\ db.messageReadReceipts[1].userId = calls[c].args.userId
        /\ Len(db.messages) = 1
        /\ db.messages[1].status = "sent"
        /\ Len(userChats) = 1
        /\ Len(userChats[1].messages) = 1
        /\ userChats[1].messages[1].status = "sent"
        /\ userChats[1].messages[1].readBy = <<>>

----------------------------------------------------------------------------
(* Invariants of the cached projection *)

\* C13: in every state each cached chat's lastMessage is the last element of its
\* messages, status and readBy included, or absent when it has no message.
C13_LastMessageIsLast ==
    \A i \in 1..Len(userChats) :
        userChats[i].lastMessage =
            IF userChats[i].messages = <<>>
            THEN None
            ELSE Some(userChats[i].messages[Len(userChats[i].messages)])

\* C14: in every state the messages of each cached chat are in ascending
\* timestamp order, overlapping sendMessage calls included.
C14_MessagesAscending ==
    \A i \in 1..Len(userChats) :
        \A k \in 1..(Len(userChats[i].messages) - 1) :
            userChats[i].messages[k].timestamp <= userChats[i].messages[k + 1].timestamp

----------------------------------------------------------------------------
(* Loads and identity changes *)

\* C15: an identity change leaves every load in flight running, and a load that
\* ends installs its own list (the chats it assembled, each holding the user it
\* was started for) whoever the current user then is; so the cached list can
\* hold the chats of a user who is no longer the current one.
C15_LoadNotCancelled ==
    [][\A l \in LoadSlots :
          /\ (LoadInFlight(l) /\ currentUserId' # currentUserId) => loads'[l] = loads[l]
          /\ LoadCommits(l)
             => /\ Len(userChats') =
                      Len(loads[l].loadedChats) + (IF loads[l].pc = "qReceipts" THEN 1 ELSE 0)
                /\ \A i \in 1..Len(loads[l].loadedChats) :
                      userChats'[i] = loads[l].loadedChats[i]
                /\ \A i \in 1..Len(userChats') :
                      Includes(userChats'[i].participants, loads[l].user)]_vars

C15_Witness ==
    /\ currentUserId = Null
    /\ \E l \in LoadSlots : loads[l].pc = "done" /\ loads[l].user = "u1"
    /\ Len(userChats) = 1
    /\ userChats[1].id = SeedChatId
    /\ Includes(userChats[1].participants, "u1")

\* sent, then delivered, then read
StatusRank(status) ==
    CASE status = "sent" -> 1
      [] status = "delivered" -> 2
      [] status = "read" -> 3

\* C16: the status of a message never moves back, neither in its row of the store
\* nor in the cached list, in any step of any interleaving of loads, sendMessage
\* and markMessageAsRead.
C16_StatusOnlyForward ==
    [][/\ \A i \in 1..Len(db.messages) :
             StatusRank(db'.messages[i].status) >= StatusRank(db.messages[i].status)
       /\ \A m \in CachedMessages(userChats) :
             \A n \in CachedMessages(userChats') :
                 n.id = m.id => StatusRank(n.status) >= StatusRank(m.status)]_vars

----------------------------------------------------------------------------
(* Message rows and the chats they name *)

HasChatRow(store, chatId) == \E i \in 1..Len(store.chats) : store.chats[i].id = chatId

\* C17 (as stated): in every reachable state of the store each message row
\* references a chat row that exists.
C17_MessagesReferenceChats ==
    \A i \in 1..Len(db.messages) : HasChatRow(db, db.messages[i].chatId)

\* C17 (amended): sendMessage does not look for the chat row. A successful call
\* appends one row filed under exactly the chatId it was given and leaves the
\* earlier rows alone; chat rows are never removed, so a row filed under a chat
\* that had its row at the insert keeps referencing an existing chat row.
C17_MessageFiledUnderGivenChat ==
    [][/\ \A i \in 1..Len(db.chats) : Len(db'.chats) >= i /\ db'.chats[i] = db.chats[i]
       /\ \A c \in CallSlots :
             (calls[c].pc = "insertMessage" /\ calls'[c].result = "true")
             => /\ Len(db'.messages) = Len(db.messages) + 1
                /\ \A i \in 1..Len(db.messages) : db'.messages[i] = db.messages[i]
                /\ db'.messages[Len(db'.messages)].chatId = calls[c].args.chatId
                /\ db'.messages[Len(db'.messages)].id = calls[c].local.messageId
                /\ HasChatRow(db, calls[c].args.chatId)
                   => HasChatRow(db', db'.messages[Len(db'.messages)].chatId)]_vars

C17_Witness ==
    /\ \E c \in CallSlots :
          /\ calls[c].op = "sendMessage"
          /\ calls[c].result = "true"
          /\ calls[c].args.chatId = SeedChatId
    /\ Len(db.messages) = 2
    /\ db.messages[2].chatId = SeedChatId
    /\ HasChatRow(db, SeedChatId)

----------------------------------------------------------------------------
(* Message identifiers *)

----------------------------------------------------------------------------
(* Cache updates of the callbacks *)

\* s is s0 with zero or more elements added at the end
Extends(s, s0) == Len(s) >= Len(s0) /\ \A i \in 1..Len(s0) : s[i] = s0[i]

\* C19: a step of createChat, sendMessage or markMessageAsRead (no load ends in
\* it) updates the cached list it finds: every chat stays listed at its place,
\* every message stays in its chat at its place, every readBy entry stays in its
\* message, and the step's own chat, message or readBy entry is added at the end.
C19_NoLostUpdate ==
    [][calls' # calls
       => /\ Len(userChats') >= Len(userChats)
          /\ \A k \in 1..Len(userChats) :
                /\ userChats'[k].id = userChats[k].id
                /\ Len(userChats'[k].messages) >= Len(userChats[k].messages)
                /\ \A i \in 1..Len(userChats[k].messages) :
                      /\ userChats'[k].messages[i].id = userChats[k].messages[i].id
                      /\ Extends(userChats'[k].messages[i].readBy,
                                 userChats[k].messages[i].readBy)
          /\ \A c \in CallSlots :
                /\ (calls[c].pc = "insertMessage" /\ calls'[c].result = "true")
                   => \A k \in 1..Len(userChats) :
                         userChats[k].id = calls[c].args.chatId
                         => /\ Len(userChats'[k].messages) = Len(userChats[k].messages) + 1
                            /\ userChats'[k].messages[Len(userChats'[k].messages)].id
                                  = calls[c].local.messageId
                /\ (calls[c].pc = "updateStatus" /\ calls'[c].result = "true")
                   => \A k \in 1..Len(userChats) :
                         \A i \in 1..Len(userChats[k].messages) :
                             userChats[k].messages[i].id = calls[c].args.messageId
                             => userChats'[k].messages[i].readBy
                                   = Append(userChats[k].messages[i].readBy,
                                            [userId |-> calls[c].args.userId,
                                             timestamp |-> calls[c].local.timestamp])
                /\ (calls[c].pc = "insertParticipant" /\ calls'[c].result = "chat")
                   => /\ Len(userChats') = Len(userChats) + 1
                      /\ userChats'[Len(userChats')].id = calls[c].local.chatId]_vars

C19_Witness ==
    /\ \E c, d \in CallSlots :
          /\ calls[c].op = "sendMessage" /\ calls[c].result = "true"
          /\ calls[d].op = "markMessageAsRead" /\ calls[d].result = "true"
          /\ calls[d].args.messageId = SeedMessageId
    /\ \A l \in LoadSlots : ~LoadInFlight(l)
    /\ Len(userChats) = 1
    /\ Len(userChats[1].messages) = 2
    /\ userChats[1].messages[1].id = SeedMessageId
    /\ Len(userChats[1].messages[1].readBy) = 1

----------------------------------------------------------------------------
(* The loading flag *)

\* this step runs the effect (first render, or a render with another identity)
EffectRuns == mounted' # mounted \/ currentUserId' # currentUserId

\* C20: loading is true until the hook is mounted; it becomes false in the step
\* in which a load ends (committed or abandoned) or the effect runs without a
\* user; once false it is never true again, so a load started by a later
\* identity change runs with loading false; and no step other than the end of a
\* load or the effect without a user changes it.
C20_LoadingFlag ==
    [][/\ ~mounted => loading
       /\ loading' => loading
       /\ \A l \in LoadSlots : (LoadCommits(l) \/ LoadFails(l)) => ~loading'
       /\ (EffectRuns /\ currentUserId' = Null) => ~loading'
       /\ loading' # loading
          => \/ \E l \in LoadSlots : LoadCommits(l) \/ LoadFails(l)
             \/ EffectRuns /\ currentUserId' = Null]_vars

C20_Witness ==
    /\ ~loading
    /\ currentUserId = "u2"
    /\ \E l \in LoadSlots : loads[l].pc = "done" /\ loads[l].user = "u1"
    /\ \E l \in LoadSlots : LoadInFlight(l) /\ loads[l].user = "u2"

----------------------------------------------------------------------------
(* The route guard: useProtectedRoute(isLoggedIn, loading) *)

\* the screens of the root Stack, as useSegments() reports them; <<>> before a
\* route is resolved
Routes == {<<>>, <<"(tabs)">>, <<"login">>, <<"ChatRoom">>}

\* the screens a navigation can lead to
Screens == Routes \ {<<>>}

\* the segments of the route a path given to router.replace resolves to
SegmentsOf(path) == IF path = "/login" THEN <<"login">> ELSE <<"(tabs)">>

\* segments[0] === 'login'
IsLoginRoute(segs) == Len(segs) > 0 /\ segs[1] = "login"

\* Faulty variant: a logged-in user is sent to the main route from any route.
RedirectTargetAnyLoggedIn(loggedIn, isLoading, segs) ==
    IF isLoading THEN None
    ELSE IF ~loggedIn /\ ~IsLoginRoute(segs) THEN Some("/login")
    ELSE IF loggedIn THEN Some("/")
    ELSE None

\* the body of the guard's effect: the path it gives to router.replace, if any
RedirectTarget(loggedIn, isLoading, segs) ==
    IF isLoading THEN None
    ELSE IF ~loggedIn /\ ~IsLoginRoute(segs) THEN Some("/login")
    ELSE IF loggedIn /\ IsLoginRoute(segs) THEN Some("/")
    ELSE None

\* the chat hook is left aside: its state does not move
HookIdle ==
    /\ currentUserId = Null
    /\ mounted = FALSE
    /\ userChats = <<>>
    /\ loading = TRUE
    /\ now = 1
    /\ db = EmptyDb
    /\ calls = [c \in CallSlots |-> IdleCall]
    /\ loads = [l \in LoadSlots |-> IdleLoad]
    /\ nOps = 0

\* the first render: the effect is due
RouteInit ==
    /\ HookIdle
    /\ isLoggedIn \in BOOLEAN
    /\ authLoading \in BOOLEAN
    /\ segments \in Routes
    /\ effectDue = TRUE
    /\ replaced = FALSE
    /\ nRouteOps = 0

\* useEffect(() => { ... }, [isLoggedIn, loading, segments, router]) runs
GuardEffect ==
    /\ effectDue
    /\ LET target == RedirectTarget(isLoggedIn, authLoading, segments)
       IN  IF target = None
           THEN /\ effectDue' = FALSE
                /\ UNCHANGED <<segments, replaced>>
           ELSE /\ segments' = SegmentsOf(target[1])
                /\ replaced' = TRUE
                /\ effectDue' = TRUE
    /\ UNCHANGED <<isLoggedIn, authLoading, nRouteOps, hookVars>>

\* the context's isLoggedIn changes (login or logout)
SetLoggedIn(b) ==
    /\ nRouteOps < MaxRouteOps
    /\ b # isLoggedIn
    /\ isLoggedIn' = b
    /\ replaced' = FALSE
    /\ effectDue' = TRUE
    /\ nRouteOps' = nRouteOps + 1
    /\ UNCHANGED <<authLoading, segments, hookVars>>

\* the context's loading changes
SetLoading(b) ==
    /\ nRouteOps < MaxRouteOps
    /\ b # authLoading
    /\ authLoading' = b
    /\ effectDue' = TRUE
    /\ nRouteOps' = nRouteOps + 1
    /\ UNCHANGED <<isLoggedIn, segments, replaced, hookVars>>

\* a screen navigates: useSegments() reports another route
Navigate(segs) ==
    /\ nRouteOps < MaxRouteOps
    /\ segs # segments
    /\ segments' = segs
    /\ effectDue' = TRUE
    /\ nRouteOps' = nRouteOps + 1
    /\ UNCHANGED <<isLoggedIn, authLoading, replaced, hookVars>>

\* a render hands the effect a new segments array or router object of the same
\* content
Rerender ==
    /\ nRouteOps < MaxRouteOps
    /\ ~effectDue
    /\ effectDue' = TRUE
    /\ nRouteOps' = nRouteOps + 1
    /\ UNCHANGED <<isLoggedIn, authLoading, segments, replaced, hookVars>>

RouteNext ==
    \/ GuardEffect
    \/ \E b \in BOOLEAN : SetLoggedIn(b)
    \/ \E b \in BOOLEAN : SetLoading(b)
    \/ \E segs \in Screens : Navigate(segs)
    \/ Rerender

RouteSpec == RouteInit /\ [][RouteNext]_vars

\* this step is a run of the guard's effect
GuardRuns == effectDue /\ nRouteOps' = nRouteOps /\ routeVars' # routeVars

\* this step is a run of the guard's effect that calls router.replace(path)
Redirects(path) ==
    /\ GuardRuns
    /\ segments' # segments
    /\ segments' = SegmentsOf(path)

\* what the claim and its amendment share: no redirect while loading, and once
\* loading is false a redirect to login exactly when not logged in off the login
\* route, to the main route exactly when logged in on the login route
RedirectsExactlyWhen ==
    /\ authLoading => (~Redirects("/login") /\ ~Redirects("/"))
    /\ (GuardRuns /\ ~authLoading)
       => /\ Redirects("/login") <=> (~isLoggedIn /\ ~IsLoginRoute(segments))
          /\ Redirects("/") <=> (isLoggedIn /\ IsLoginRoute(segments))
    /\ (~effectDue /\ ~authLoading)
       => RedirectTarget(isLoggedIn, authLoading, segments) = None

\* C21 (as stated): the guard never redirects while loading; once loading is
\* false it redirects to login exactly when not logged in off the login route
\* and to the main route exactly when logged in on the login route; and after
\* one redirect no further redirect fires until the login state changes.
C21_RouteGuard ==
    [][/\ RedirectsExactlyWhen
       /\ replaced => (~Redirects("/login") /\ ~Redirects("/"))]_vars

\* C21 (amended): as stated, except for the last part: a redirect lands on a
\* route for which the guard does not redirect, so no further redirect fires
\* until the login state or the current route changes.
C21_RouteGuardSettles ==
    [][/\ RedirectsExactlyWhen
       /\ (Redirects("/login") \/ Redirects("/"))
          => RedirectTarget(isLoggedIn', authLoading', segments') = None]_vars

C21_Witness ==
    /\ replaced
    /\ ~effectDue
    /\ ~authLoading
    /\ ~isLoggedIn
    /\ segments = <<"login">>

====
